---- MODULE Spec2Model ----
(***************************************************************************)
(* Filename <-> first-heading synchronisation (obsidian-slugify).          *)
(*                                                                         *)
(* A JavaScript string is a sequence of one-character strings, so that     *)
(* replace, trim, case conversion and regular-expression matching are      *)
(* computed character by character as the code computes them.              *)
(***************************************************************************)
EXTENDS Integers, Sequences, FiniteSets, TLC

VARIABLES file, content, frontmatter, settings, queue, chains, last, userActions

vars == <<file, content, frontmatter, settings, queue, chains, last, userActions>>

\* ------------------------------------------------------------------ bounds
\* Longest string handed to sanitizeHeading by the function-level specification.
MaxLen == 4
\* Longest serialized regular expression handed to deserializeRegExp.
MaxRegLen == 4
\* Longest line array handed to getHeadingLine.
MaxLines == 4
\* Most events waiting in the host's dispatch queue.
MaxQueue == 1
\* Most asynchronous read/write/rename chains in flight.
MaxChains == 2

\* ----------------------------------------------------------------- strings
Lowers == <<"a","b","c","d","e","f","g","h","i","j","k","l","m",
            "n","o","p","q","r","s","t","u","v","w","x","y","z">>
Uppers == <<"A","B","C","D","E","F","G","H","I","J","K","L","M",
            "N","O","P","Q","R","S","T","U","V","W","X","Y","Z">>

Range(s) == {s[i] : i \in 1..Len(s)}

IsLower(c) == c \in Range(Lowers)

IsUpper(c) == c \in Range(Uppers)

IsAlnum(c) == IsLower(c) \/ IsUpper(c) \/ c \in {"0","1","2","3","4","5","6","7","8","9"}

UpperChar(c) == IF IsLower(c) THEN Uppers[CHOOSE i \in 1..26 : Lowers[i] = c] ELSE c

LowerChar(c) == IF IsUpper(c) THEN Lowers[CHOOSE i \in 1..26 : Uppers[i] = c] ELSE c

\* String.prototype.toLowerCase
toLowerCase(s) == [i \in 1..Len(s) |-> LowerChar(s[i])]

\* s.replace(/c/g, d) for single characters c and d
ReplaceChar(s, c, d) == [i \in 1..Len(s) |-> IF s[i] = c THEN d ELSE s[i]]

IsSpace(c) == c = " "

\* String.prototype.trim
trim(s) ==
    LET keep == {i \in 1..Len(s) : ~IsSpace(s[i])}
    IN  IF keep = {} THEN <<>>
        ELSE SubSeq(s, CHOOSE i \in keep : \A j \in keep : i <= j,
                       CHOOSE i \in keep : \A j \in keep : j <= i)

StartsWith(s, p) == Len(s) >= Len(p) /\ SubSeq(s, 1, Len(p)) = p

\* All sequences over S of length at most n
SeqsUpTo(S, n) == UNION {[1..k -> S] : k \in 0..n}

\* ------------------------------------------------------ regular expressions
\* The fragment of JavaScript patterns the model compiles: ^ $ . literals,
\* \c for a non-alphanumeric c, each consuming atom optionally starred, and the
\* empty group (?:) that RegExp.prototype.toString prints for an empty source.
\* Within it, an unterminated [ , a * with nothing to repeat and a trailing \
\* are the SyntaxErrors of new RegExp.  A pattern outside the fragment compiles
\* to Unsupported, which no reachable state holds (see FragmentOK).
ValidFlagChars == {"d","g","i","m","s","u","v","y"}

Unsupported == "unsupported"

SyntaxError == "SyntaxError"

TypeError == "TypeError"

EmptyGroup == <<"(", "?", ":", ")">>

OutsideFragment == {"(", ")", "]", "{", "}", "+", "?", "|"}

NoError == "none"

\* The atoms from index i on (rest) behind the atom read at index i
AtomsFail(e) == [err |-> e, atoms |-> <<>>]

\* Whether the character at index i of pattern p escapes the next one
Escapes(p, i) == p[i] = "\\"

\* The index after the atom at index i, its escaped character included
AfterAtom(p, i) == IF Escapes(p, i) THEN i + 2 ELSE i + 1

\* Whether a * follows the atom at index i
Starred(p, i) == AfterAtom(p, i) <= Len(p) /\ p[AfterAtom(p, i)] = "*"

\* The index of the atom that follows the one at index i
Following(p, i) == IF Starred(p, i) THEN AfterAtom(p, i) + 1 ELSE AfterAtom(p, i)

\* The atom at index i of pattern p
AtomAt(p, i) ==
    IF Escapes(p, i) THEN [kind |-> "lit", ch |-> p[i + 1], star |-> Starred(p, i)]
    ELSE IF p[i] = "^" THEN [kind |-> "bol", ch |-> p[i], star |-> FALSE]
    ELSE IF p[i] = "$" THEN [kind |-> "eol", ch |-> p[i], star |-> FALSE]
    ELSE IF p[i] = "." THEN [kind |-> "any", ch |-> p[i], star |-> Starred(p, i)]
    ELSE [kind |-> "lit", ch |-> p[i], star |-> Starred(p, i)]

\* The error of the atom at index i of pattern p, NoError when it has none
AtomError(p, i) ==
    IF p[i] = "[" /\ "]" \notin Range(SubSeq(p, i + 1, Len(p))) THEN SyntaxError
    ELSE IF p[i] = "*" THEN SyntaxError
    ELSE IF Escapes(p, i) /\ i = Len(p) THEN SyntaxError
    ELSE IF p[i] \in {"^", "$"} /\ Starred(p, i) THEN SyntaxError
    ELSE IF p[i] = "[" \/ p[i] \in OutsideFragment THEN Unsupported
    ELSE IF Escapes(p, i) /\ IsAlnum(p[i + 1]) THEN Unsupported
    ELSE NoError

\* The atoms of pattern p, or the first error (err) met from left to right.
Atoms(p) ==
    LET ErrorFrom[i \in 1..(Len(p) + 1)] ==
            IF i > Len(p) THEN NoError
            ELSE IF AtomError(p, i) # NoError THEN AtomError(p, i)
            ELSE ErrorFrom[Following(p, i)]
        AtomsFrom[i \in 1..(Len(p) + 1)] ==
            IF i > Len(p) THEN <<>> ELSE <<AtomAt(p, i)>> \o AtomsFrom[Following(p, i)]
    IN  IF ErrorFrom[1] # NoError THEN AtomsFail(ErrorFrom[1])
        ELSE [err |-> NoError, atoms |-> AtomsFrom[1]]

RegExpFail(e) == [err |-> e, atoms |-> <<>>, global |-> FALSE]

\* The expression of atoms a (or their error) under flags
Compiled(a, flags) ==
    IF \/ \E i \in 1..Len(flags) : flags[i] \notin ValidFlagChars
       \/ \E i, j \in 1..Len(flags) : i < j /\ flags[i] = flags[j]
       \/ {"u", "v"} \subseteq Range(flags)
    THEN RegExpFail(SyntaxError)
    ELSE IF a.err # NoError THEN RegExpFail(a.err)
    ELSE IF Range(flags) \subseteq {"g"}
    THEN [err |-> NoError, atoms |-> a.atoms, global |-> "g" \in Range(flags)]
    ELSE RegExpFail(Unsupported)

\* new RegExp(pattern, flags): a compiled expression, or the error it throws
\* (err = SyntaxError).
NewRegExp(pattern, flags) ==
    Compiled(IF pattern = EmptyGroup THEN [err |-> NoError, atoms |-> <<>>]
             ELSE Atoms(pattern), flags)

AtomOK(a, c) == a.kind = "any" \/ (a.kind = "lit" /\ a.ch = c)

Max(S) == CHOOSE n \in S : \A m \in S : m <= n

Min(S) == CHOOSE n \in S : \A m \in S : n <= m

RECURSIVE MatchFrom(_, _, _, _)
RECURSIVE StarEnd(_, _, _, _, _)
\* The end of the backtracking match of atoms k.. at position p of s (p
\* characters consumed), greedy stars first; -1 when there is none.
MatchFrom(atoms, k, s, p) ==
    IF k > Len(atoms) THEN p
    ELSE IF atoms[k].kind = "bol"
    THEN (IF p = 0 THEN MatchFrom(atoms, k + 1, s, p) ELSE -1)
    ELSE IF atoms[k].kind = "eol"
    THEN (IF p = Len(s) THEN MatchFrom(atoms, k + 1, s, p) ELSE -1)
    ELSE IF ~atoms[k].star
    THEN (IF p < Len(s) /\ AtomOK(atoms[k], s[p + 1])
          THEN MatchFrom(atoms, k + 1, s, p + 1) ELSE -1)
    ELSE StarEnd(atoms, k, s, p,
                 Max({n \in 0..(Len(s) - p) : \A m \in 1..n : AtomOK(atoms[k], s[p + m])}))

\* The starred atom k repeated n times, then fewer: the first count after
\* which the rest matches decides.
StarEnd(atoms, k, s, p, n) ==
    IF n < 0 THEN -1
    ELSE IF MatchFrom(atoms, k + 1, s, p + n) # -1
    THEN MatchFrom(atoms, k + 1, s, p + n)
    ELSE StarEnd(atoms, k, s, p, n - 1)

\* regex.exec(s) != null for a fresh expression (lastIndex 0)
Exec(re, s) ==
    \E atoms \in {re.atoms} : \E subject \in {s} :
        \E p \in 0..Len(subject) : MatchFrom(atoms, 1, subject, p) # -1

RECURSIVE ReplaceFrom(_, _, _)
RECURSIVE ReplaceStep(_, _, _, _)
\* s.replace(re, "") from position p on: the text that is kept.
ReplaceFrom(s, re, p) ==
    IF p > Len(s) THEN <<>> ELSE ReplaceStep(s, re, p, MatchFrom(re.atoms, 1, s, p))

\* e is the end of the match at p, -1 when there is none
ReplaceStep(s, re, p, e) ==
    IF e # -1 /\ ~re.global THEN SubSeq(s, e + 1, Len(s))
    ELSE IF e # -1 /\ e > p THEN ReplaceFrom(s, re, e)
    ELSE IF p < Len(s) THEN <<s[p + 1]>> \o ReplaceFrom(s, re, p + 1)
    ELSE <<>>

Replace(s, re) == ReplaceFrom(s, re, 0)

\* RegExp.prototype.toString: "/" source "/" flags, a / of the source escaped.
RECURSIVE EscapeSource(_, _)
EscapeSource(p, i) ==
    IF i > Len(p) THEN <<>>
    ELSE IF p[i] = "\\" /\ i < Len(p) THEN <<p[i], p[i + 1]>> \o EscapeSource(p, i + 2)
    ELSE IF p[i] = "/" THEN <<"\\", "/">> \o EscapeSource(p, i + 1)
    ELSE <<p[i]>> \o EscapeSource(p, i + 1)

\* ------------------------------------------------------- deserializeRegExp
\* The lowercase letters that tail begins with: ([a-z]*)
FlagsOf(tail) ==
    SubSeq(tail, 1, Min({i \in 1..(Len(tail) + 1) : i > Len(tail) \/ ~IsLower(tail[i])}) - 1)

\* regExpString.match(/\/(.*)?\/([a-z]*)/): the first "/", the greedy (.*)? up
\* to the last "/", then the lowercase letters that follow it.
Matched(s, slashes) ==
    IF Cardinality(slashes) < 2 THEN [matched |-> FALSE, pattern |-> <<>>, flags |-> <<>>]
    ELSE [matched |-> TRUE, pattern |-> SubSeq(s, Min(slashes) + 1, Max(slashes) - 1),
          flags |-> FlagsOf(SubSeq(s, Max(slashes) + 1, Len(s)))]

RegExpMatch(s) ==
    CHOOSE m \in {Matched(s, slashes) : slashes \in {{i \in 1..Len(s) : s[i] = "/"}}} : TRUE

\* The expression returned for a string that does not match: new RegExp("$^", "g")
EmptyRegExp == NewRegExp(<<"$", "^">>, <<"g">>)

\* What deserializeRegExp does with new RegExp(match[1], match[2])
FromMatch(m, re) ==
    IF re.err = SyntaxError
    THEN [threw |-> TRUE, notices |-> 0, re |-> re, source |-> <<>>, flags |-> <<>>]
    ELSE [threw |-> FALSE, notices |-> 0, re |-> re,
          source |-> IF m.pattern = <<>> THEN EmptyGroup ELSE EscapeSource(m.pattern, 1),
          flags |-> m.flags]

Deserialized(m) ==
    IF m.matched
    THEN CHOOSE d \in {FromMatch(m, re) : re \in {NewRegExp(m.pattern, m.flags)}} : TRUE
    ELSE [threw |-> FALSE, notices |-> 1, re |-> EmptyRegExp,
          source |-> <<"$", "^">>, flags |-> <<"g">>]

\* deserializeRegExp: what it returns (re) or that it throws (threw), the
\* notices it shows, and the text of the expression (for toString).
deserializeRegExp(regExpString) ==
    CHOOSE d \in {Deserialized(m) : m \in {RegExpMatch(regExpString)}} : TRUE

\* deserializeRegExp(value).toString(), for a call that returned
RegExpToString(d) == <<"/">> \o d.source \o <<"/">> \o d.flags

\* --------------------------------------------------------- sanitizeHeading
\* The characters of the class in stockIllegalSymbols = /[\\/:|#^[\]]|\.$/g
StockIllegalChars == {"\\", "/", ":", "|", "#", "^", "[", "]"}

\* heading.replace(stockIllegalSymbols, ""): every character of the class, and
\* a dot that is the last character of the string being searched.
RECURSIVE ReplaceStockFrom(_, _)
ReplaceStockFrom(s, i) ==
    IF i > Len(s) THEN <<>>
    ELSE (IF s[i] \in StockIllegalChars \/ (s[i] = "." /\ i = Len(s)) THEN <<>> ELSE <<s[i]>>)
         \o ReplaceStockFrom(s, i + 1)

ReplaceStockIllegalSymbols(s) == ReplaceStockFrom(s, 1)

\* The last two steps of sanitizeHeading, d being deserializeRegExp's result
Sanitized(h1, d) ==
    IF d.threw THEN [threw |-> TRUE, notices |-> d.notices, ret |-> <<>>]
    ELSE [threw |-> FALSE, notices |-> d.notices, ret |-> trim(Replace(h1, d.re))]

\* sanitizeHeading under the setting userIllegalSymbols: the string returned
\* (ret), or threw when deserializeRegExp throws; notices as deserializeRegExp.
sanitizeHeading(heading, userIllegalSymbols) ==
    CHOOSE s \in {Sanitized(h1, d) : h1 \in {ReplaceStockIllegalSymbols(heading)},
                                      d \in {deserializeRegExp(userIllegalSymbols)}} : TRUE

\* ----------------------------------------------------------- getHeadingLine
Dashes == <<"-", "-", "-">>

HeadingPrefix == <<"#", " ">>

\* lines.indexOf(x, from), 0-based, -1 when absent
IndexOf(lines, x, from) ==
    IF \E i \in from..(Len(lines) - 1) : lines[i + 1] = x
    THEN Min({i \in from..(Len(lines) - 1) : lines[i + 1] = x})
    ELSE -1

\* A getStartLine that never skips a frontmatter block
StartLineZero(lines) == 0

\* getStartLine (0-based; lines[0] of an empty array is undefined, not "---")
getStartLine(lines) ==
    IF Len(lines) > 0 /\ lines[1] = Dashes THEN IndexOf(lines, Dashes, 1) + 1 ELSE 0

\* The first index from startLine on of a line that starts with "# "
FirstHeadingFrom(lines, startLine) ==
    IF \E i \in startLine..(Len(lines) - 1) : StartsWith(lines[i + 1], HeadingPrefix)
    THEN Min({i \in startLine..(Len(lines) - 1) : StartsWith(lines[i + 1], HeadingPrefix)})
    ELSE -1

\* getHeadingLine (0-based index, -1 when no heading is found)
getHeadingLine(lines) == FirstHeadingFrom(lines, getStartLine(lines))

\* --------------------------------------------------------------- documents
Root == <<"/">>

MD == <<"m", "d">>

MARKDOWN == <<"m", "a", "r", "k", "d", "o", "w", "n">>

\* TFile.path: the root folder's path is "/", and its files have no folder prefix
PathOf(f) ==
    (IF f.parent = Root THEN <<>> ELSE f.parent \o <<"/">>)
        \o f.basename \o <<".">> \o f.extension

\* DEFAULT_SETTINGS
DefaultIgnoreRegExp ==
    <<"/", ".", "*", ".", "e", "x", "c", "a", "l", "i", "d", "r", "a", "w",
      ".", "m", "d", "$", "/", "g">>

DEFAULT_SETTINGS ==
    [userIllegalSymbols |-> <<>>, fileIgnoreRegexen |-> <<DefaultIgnoreRegExp>>]

\* The metadata cache's frontmatter of the document: absent (present = FALSE),
\* or an object in which each marker key is absent, or holds a falsy or a
\* truthy value.
KeyValues == {"absent", "falsy", "truthy"}

NoFrontmatter == [present |-> FALSE, excalidraw |-> "absent", kanban |-> "absent"]

Frontmatters ==
    {NoFrontmatter} \cup [present : {TRUE}, excalidraw : KeyValues, kanban : KeyValues]

\* -------------------------------------------------------------- ignoreFile
Returned(ret, notices) == [threw |-> FALSE, notices |-> notices, ret |-> ret]

Threw(notices) == [threw |-> TRUE, notices |-> notices, ret |-> FALSE]

RECURSIVE IgnoreRegexen(_, _, _, _)
RECURSIVE IgnoreRegex(_, _, _, _, _)
\* The loop over settings.fileIgnoreRegexen from index i on (1-based), n
\* notices shown so far.
IgnoreRegexen(path, regexen, i, n) ==
    IF i > Len(regexen) THEN Returned(FALSE, n)
    ELSE CHOOSE ig \in {IgnoreRegex(path, regexen, i, n, d) :
                            d \in {deserializeRegExp(regexen[i])}} : TRUE

\* One turn of the loop, d being deserializeRegExp's result
IgnoreRegex(path, regexen, i, n, d) ==
    IF d.threw THEN Threw(n)
    ELSE IF Exec(d.re, path) THEN Returned(TRUE, n + d.notices)
    ELSE IgnoreRegexen(path, regexen, i + 1, n + d.notices)

\* An ignoreFile that does not look at the "kanban-plugin" key
IgnoreFileWithoutKanban(f, fm, regexen) ==
    IF f.extension # MD /\ f.extension # MARKDOWN THEN Returned(TRUE, 0)
    ELSE IF fm.present /\ fm.excalidraw = "truthy" THEN Returned(TRUE, 0)
    ELSE IgnoreRegexen(PathOf(f), regexen, 1, 0)

\* ignoreFile: what it returns (ret), or threw when deserializeRegExp throws.
ignoreFile(f, fm, regexen) ==
    IF f.extension # MD /\ f.extension # MARKDOWN THEN Returned(TRUE, 0)
    ELSE IF fm.present /\ fm.excalidraw = "truthy" THEN Returned(TRUE, 0)
    ELSE IF fm.present /\ fm.kanban = "truthy" THEN Returned(TRUE, 0)
    ELSE IgnoreRegexen(PathOf(f), regexen, 1, 0)

\* if (!this.ignoreFile(file)) in the three event handlers
NotIgnored(ig) == ~ig.threw /\ ~ig.ret

\* ------------------------------------------------------------- sync engine
\* "# " + heading[0].toUpperCase() + heading.slice(1); heading[0] of an empty
\* string is undefined, and the call on it a TypeError.
Capitalized(heading, notices) ==
    IF heading = <<>> THEN [threw |-> TypeError, notices |-> notices, heading |-> <<>>]
    ELSE [threw |-> NoError, notices |-> notices,
          heading |-> HeadingPrefix \o <<UpperChar(heading[1])>> \o Tail(heading)]

\* The heading of handleSyncFilenameToHeading, s being sanitizeHeading's result
Formatted(s) ==
    IF s.threw THEN [threw |-> SyntaxError, notices |-> s.notices, heading |-> <<>>]
    ELSE Capitalized(ReplaceChar(s.ret, "-", " "), s.notices)

\* handleSyncFilenameToHeading up to vault.read: the heading text, or the
\* error thrown (SyntaxError from deserializeRegExp, TypeError from heading[0]).
FormatHeading(basename, userIllegalSymbols) ==
    CHOOSE h \in {Formatted(s) : s \in {sanitizeHeading(basename, userIllegalSymbols)}} : TRUE

\* lines with the heading written at headingLine, or put first when it is -1
HeadingWritten(lines, heading, headingLine) ==
    IF headingLine # -1 THEN [lines EXCEPT ![headingLine + 1] = heading]
    ELSE <<heading>> \o lines

\* The read callback of handleSyncFilenameToHeading: the lines it writes.
WriteHeading(lines, heading) == HeadingWritten(lines, heading, getHeadingLine(lines))

\* A new path that keeps the heading's case
RenamePathKeepingCase(s, parent) ==
    IF s.threw THEN [threw |-> SyntaxError, notices |-> s.notices, newPath |-> <<>>]
    ELSE [threw |-> NoError, notices |-> s.notices,
          newPath |-> parent \o <<"/">> \o ReplaceChar(s.ret, " ", "-") \o <<".">> \o MD]

\* The new path of handleSyncHeadingToFilename, s being sanitizeHeading's result
RenamePath(s, parent) ==
    IF s.threw THEN [threw |-> SyntaxError, notices |-> s.notices, newPath |-> <<>>]
    ELSE [threw |-> NoError, notices |-> s.notices,
          newPath |-> parent \o <<"/">>
                      \o toLowerCase(ReplaceChar(s.ret, " ", "-")) \o <<".">> \o MD]

\* The read callback of handleSyncHeadingToFilename on a heading line: the
\* path it asks the host to rename the file to.
NewPath(line, parent, userIllegalSymbols) ==
    CHOOSE np \in {RenamePath(s, parent) :
                      s \in {sanitizeHeading(line, userIllegalSymbols)}} : TRUE

\* ------------------------------------------------------------ host and state
\* The host's rename(file, newPath): the folder, basename and extension that
\* the new path gives the TFile.
ParsePath(path) ==
    LET slashes == {i \in 1..Len(path) : path[i] = "/"}
        sl == IF slashes = {} THEN 0 ELSE CHOOSE i \in slashes : \A j \in slashes : j <= i
        name == SubSeq(path, sl + 1, Len(path))
        dots == {i \in 1..Len(name) : name[i] = "."}
        dot == IF dots = {} THEN Len(name) + 1
               ELSE CHOOSE i \in dots : \A j \in dots : j <= i
    IN  [parent |-> IF sl <= 1 THEN Root ELSE SubSeq(path, 1, sl - 1),
         basename |-> SubSeq(name, 1, dot - 1),
         extension |-> SubSeq(name, dot + 1, Len(name))]

\* One asynchronous chain: vault.read(file).then(callback), then the
\* vault.modify or fileManager.renameFile that the callback requested.  gate is
\* what ignoreFile returned on the event that started the chain.
Chain(kind, stage, heading, data, newPath, gate) ==
    [kind |-> kind, stage |-> stage, heading |-> heading, data |-> data,
     newPath |-> newPath, gate |-> gate]

Request(op, data, newPath) == [op |-> op, data |-> data, newPath |-> newPath]

\* What the last step did: the operation, the error it threw, the notices it
\* showed, ignoreFile's answer, the basename, heading and lines it worked on,
\* and the host requests it issued.
Step(op, threw, notices, gate, basename, heading, lines, issued) ==
    [op |-> op, threw |-> threw, notices |-> notices, gate |-> gate,
     basename |-> basename, heading |-> heading, lines |-> lines, issued |-> issued]

NoGate == [threw |-> FALSE, notices |-> 0, ret |-> FALSE]

Remove(s, i) == SubSeq(s, 1, i - 1) \o SubSeq(s, i + 1, Len(s))

Idle(op) == Step(op, NoError, 0, NoGate, <<>>, <<>>, <<>>, <<>>)

\* ------------------------------------------------------------ environment
Folder == <<"d">>

TXT == <<"t", "x", "t">>

UserBasenames == {<<"a", ".", ".">>, <<"#">>}

UserContents ==
    { << <<"#", " ", "X", " ", "y">> >>,
      << <<"t">> >>,
      << Dashes, <<"k">>, Dashes, <<"#", " ", "b", ".">> >> }

UserFrontmatters ==
    { [present |-> TRUE, excalidraw |-> "truthy", kanban |-> "absent"],
      [present |-> TRUE, excalidraw |-> "absent", kanban |-> "falsy"] }

\* What the user types into a regular-expression field of the settings tab
UserRegExpInputs ==
    { <<"/", "^", "a", "/", "g">>, <<"/", "[", "/", "g">> }

\* The documents of the vault: markdown in a folder and in the root, and a
\* file that is not markdown
UserFiles ==
    { [parent |-> Folder, basename |-> <<"a", "-", "b">>, extension |-> MD],
      [parent |-> Root, basename |-> <<"a", ".", ".">>, extension |-> MD],
      [parent |-> Folder, basename |-> <<"a", "-", "b">>, extension |-> TXT] }

\* Most entries of settings.fileIgnoreRegexen
MaxIgnore == 1

\* Most user and cache actions in one behaviour
MaxUserActions == 2

Init ==
    /\ file \in UserFiles
    /\ content \in UserContents
    /\ frontmatter = NoFrontmatter
    /\ settings = DEFAULT_SETTINGS
    /\ queue = <<>>
    /\ chains = <<>>
    /\ last = Idle("init")
    /\ userActions = 0

\* -------------------------------------------------------------- handlers
ReadRequest == <<Request("read", <<>>, <<>>)>>

\* A "file-open" or "rename" handler, ig being ignoreFile's result and h the
\* heading that handleSyncFilenameToHeading formats
FilenameEvent(ev, ig, h) ==
    /\ chains' = IF NotIgnored(ig) /\ h.threw = NoError
                 THEN Append(chains, Chain("f2h", "read", h.heading, <<>>, <<>>, ig))
                 ELSE chains
    /\ last' = IF NotIgnored(ig)
               THEN Step(ev, h.threw, ig.notices + h.notices, ig, file.basename, h.heading,
                         <<>>, IF h.threw = NoError THEN ReadRequest ELSE <<>>)
               ELSE Step(ev, IF ig.threw THEN SyntaxError ELSE NoError, ig.notices, ig,
                         file.basename, <<>>, <<>>, <<>>)

\* The "file-open" and "rename" handlers of onload, with the synchronous part
\* of handleSyncFilenameToHeading.
OnFilenameEvent(ev) ==
    /\ queue # <<>> /\ Head(queue) = ev
    /\ Len(chains) < MaxChains
    /\ \E ig \in {ignoreFile(file, frontmatter, settings.fileIgnoreRegexen)} :
       \E h \in {FormatHeading(file.basename, settings.userIllegalSymbols)} :
          FilenameEvent(ev, ig, h)
    /\ queue' = Tail(queue)
    /\ UNCHANGED <<file, content, frontmatter, settings, userActions>>

OnFileOpen == OnFilenameEvent("file-open")

OnRename == OnFilenameEvent("rename")

\* The "modify" handler, ig being ignoreFile's result
ModifyEvent(ig) ==
    /\ chains' = IF NotIgnored(ig)
                 THEN Append(chains, Chain("h2f", "read", <<>>, <<>>, <<>>, ig))
                 ELSE chains
    /\ last' = Step("modify", IF ig.threw THEN SyntaxError ELSE NoError, ig.notices, ig,
                    file.basename, <<>>, <<>>, IF NotIgnored(ig) THEN ReadRequest ELSE <<>>)

\* The "modify" handler of onload, with handleSyncHeadingToFilename up to
\* vault.read.
OnModify ==
    /\ queue # <<>> /\ Head(queue) = "modify"
    /\ Len(chains) < MaxChains
    /\ \E ig \in {ignoreFile(file, frontmatter, settings.fileIgnoreRegexen)} :
          ModifyEvent(ig)
    /\ queue' = Tail(queue)
    /\ UNCHANGED <<file, content, frontmatter, settings, userActions>>

\* The callback of handleSyncFilenameToHeading on the lines read: data is what
\* it hands to vault.modify
FilenameToHeadingCallback(i, lines, data) ==
    /\ chains' = [chains EXCEPT ![i].stage = "modify", ![i].data = data]
    /\ last' = Step("f2h-callback", NoError, 0, chains[i].gate, file.basename,
                    chains[i].heading, lines, <<Request("modify", data, <<>>)>>)

\* vault.read resolves for a chain of handleSyncFilenameToHeading: its callback
\* runs on the content as it is now and calls vault.modify.
ReadFilenameToHeading(i) ==
    /\ chains[i].kind = "f2h" /\ chains[i].stage = "read"
    /\ FilenameToHeadingCallback(i, content, WriteHeading(content, chains[i].heading))
    /\ UNCHANGED <<file, content, frontmatter, settings, queue, userActions>>

\* The callback of handleSyncHeadingToFilename with a heading line: np is the
\* path it formed
RenameRequested(i, np) ==
    /\ chains' = IF np.threw = NoError
                 THEN [chains EXCEPT ![i].stage = "rename", ![i].newPath = np.newPath]
                 ELSE Remove(chains, i)
    /\ last' = Step("h2f-callback", np.threw, np.notices, chains[i].gate,
                    file.basename, <<>>, content,
                    IF np.threw = NoError THEN <<Request("rename", <<>>, np.newPath)>>
                    ELSE <<>>)

\* The callback of handleSyncHeadingToFilename without a heading line: the call
\* of handleSyncFilenameToHeading, h being the heading that formats
FallenBack(i, h) ==
    /\ chains' = IF h.threw = NoError
                 THEN [chains EXCEPT ![i].kind = "f2h", ![i].heading = h.heading]
                 ELSE Remove(chains, i)
    /\ last' = Step("h2f-fallback", h.threw, h.notices, chains[i].gate,
                    file.basename, h.heading, content,
                    IF h.threw = NoError THEN ReadRequest ELSE <<>>)

HeadingToFilenameCallback(i, headingLine) ==
    IF headingLine # -1
    THEN RenameRequested(i, NewPath(content[headingLine + 1], file.parent,
                                    settings.userIllegalSymbols))
    ELSE FallenBack(i, FormatHeading(file.basename, settings.userIllegalSymbols))

\* vault.read resolves for a chain of handleSyncHeadingToFilename: its callback
\* requests the rename, or falls back to handleSyncFilenameToHeading.
ReadHeadingToFilename(i) ==
    /\ chains[i].kind = "h2f" /\ chains[i].stage = "read"
    /\ HeadingToFilenameCallback(i, getHeadingLine(content))
    /\ UNCHANGED <<file, content, frontmatter, settings, queue, userActions>>

\* The host carries out vault.modify(file, data) and emits "modify".
ApplyModify(i) ==
    /\ chains[i].stage = "modify"
    /\ Len(queue) < MaxQueue
    /\ content' = chains[i].data
    /\ queue' = Append(queue, "modify")
    /\ chains' = Remove(chains, i)
    /\ last' = Step("vault.modify", NoError, 0, chains[i].gate, file.basename, <<>>,
                    chains[i].data, <<>>)
    /\ UNCHANGED <<file, frontmatter, settings, userActions>>

\* The host carries out fileManager.renameFile(file, newPath) and emits "rename".
ApplyRename(i) ==
    /\ chains[i].stage = "rename"
    /\ Len(queue) < MaxQueue
    /\ file' = ParsePath(chains[i].newPath)
    /\ queue' = Append(queue, "rename")
    /\ chains' = Remove(chains, i)
    /\ last' = Step("renameFile", NoError, 0, chains[i].gate, file.basename, <<>>,
                    content, <<>>)
    /\ UNCHANGED <<content, frontmatter, settings, userActions>>

\* ------------------------------------------------------- user and settings
UserActs == userActions < MaxUserActions /\ userActions' = userActions + 1

\* The user opens the document: the host emits "file-open".
UserOpen ==
    /\ UserActs /\ Len(queue) < MaxQueue
    /\ queue' = Append(queue, "file-open")
    /\ last' = Idle("user-open")
    /\ UNCHANGED <<file, content, frontmatter, settings, chains>>

\* The user renames the document: the host emits "rename".
UserRename ==
    /\ UserActs /\ Len(queue) < MaxQueue
    /\ \E b \in UserBasenames : file' = [file EXCEPT !.basename = b]
    /\ queue' = Append(queue, "rename")
    /\ last' = Idle("user-rename")
    /\ UNCHANGED <<content, frontmatter, settings, chains>>

\* The user edits the document: the host emits "modify".
UserEdit ==
    /\ UserActs /\ Len(queue) < MaxQueue
    /\ \E c \in UserContents : content' = c
    /\ queue' = Append(queue, "modify")
    /\ last' = Idle("user-edit")
    /\ UNCHANGED <<file, frontmatter, settings, chains>>

\* The metadata cache takes up a new frontmatter of the document.
CacheChanged ==
    /\ UserActs
    /\ \E fm \in UserFrontmatters : frontmatter' = fm
    /\ last' = Idle("cache-changed")
    /\ UNCHANGED <<file, content, settings, queue, chains>>

SettingStep(op, d) ==
    Step(op, IF d.threw THEN SyntaxError ELSE NoError, d.notices, NoGate,
         <<>>, <<>>, <<>>, <<>>)

\* The assignment of onChange, d being deserializeRegExp(value)
UserIllegalSymbolsChanged(d) ==
    /\ settings' = IF d.threw THEN settings
                   ELSE [settings EXCEPT !.userIllegalSymbols = RegExpToString(d)]
    /\ last' = SettingStep("set-userIllegalSymbols", d)

IgnoreRegexChanged(index, d) ==
    /\ settings' = IF d.threw THEN settings
                   ELSE [settings EXCEPT !.fileIgnoreRegexen[index] = RegExpToString(d)]
    /\ last' = SettingStep("set-fileIgnoreRegexen", d)

\* onChange of the "Custom Illegal Characters/Strings Regex" field: the
\* assignment is not reached when deserializeRegExp throws.
SetUserIllegalSymbols ==
    /\ UserActs
    /\ \E value \in UserRegExpInputs : UserIllegalSymbolsChanged(deserializeRegExp(value))
    /\ UNCHANGED <<file, content, frontmatter, queue, chains>>

\* onClick of "Add Regex": fileIgnoreRegexen.push("//g")
AddIgnoreRegex ==
    /\ UserActs /\ Len(settings.fileIgnoreRegexen) < MaxIgnore
    /\ settings' = [settings EXCEPT
                      !.fileIgnoreRegexen = Append(@, <<"/", "/", "g">>)]
    /\ last' = Idle("add-ignore")
    /\ UNCHANGED <<file, content, frontmatter, queue, chains>>

\* onChange of the text field of ignore expression index
SetIgnoreRegex ==
    /\ UserActs
    /\ \E index \in 1..Len(settings.fileIgnoreRegexen), value \in UserRegExpInputs :
         IgnoreRegexChanged(index, deserializeRegExp(value))
    /\ UNCHANGED <<file, content, frontmatter, queue, chains>>

\* onClick of the trash button of ignore expression index: splice(index, 1)
RemoveIgnoreRegex ==
    /\ UserActs
    /\ \E index \in 1..Len(settings.fileIgnoreRegexen) :
         settings' = [settings EXCEPT !.fileIgnoreRegexen = Remove(@, index)]
    /\ last' = Idle("remove-ignore")
    /\ UNCHANGED <<file, content, frontmatter, queue, chains>>

Next ==
    \/ OnFileOpen
    \/ OnRename
    \/ OnModify
    \/ \E i \in 1..Len(chains) : ReadFilenameToHeading(i)
    \/ \E i \in 1..Len(chains) : ReadHeadingToFilename(i)
    \/ \E i \in 1..Len(chains) : ApplyModify(i)
    \/ \E i \in 1..Len(chains) : ApplyRename(i)
    \/ UserOpen
    \/ UserRename
    \/ UserEdit
    \/ CacheChanged
    \/ SetUserIllegalSymbols
    \/ AddIgnoreRegex
    \/ SetIgnoreRegex
    \/ RemoveIgnoreRegex

Spec == Init /\ [][Next]_vars

\* ------------------------------------------------------------ the cascade
\* One user-originated event on a document that is not ignored, after which
\* only the plugin and the host act: every queued event is delivered, every
\* read resolves and every requested write or rename is carried out.
CascadeBasenames == {<<"a", "-", "b">>, <<"a", ".", ".">>, <<"A", " ", "b">>}

\* The settings of a cascade: the defaults, and a userIllegalSymbols that the
\* settings tab stored
CascadeSettings ==
    { DEFAULT_SETTINGS,
      [DEFAULT_SETTINGS EXCEPT !.userIllegalSymbols = <<"/", "^", "a", "/", "g">>] }

CascadeInit ==
    /\ file \in [parent : {Root, Folder}, basename : CascadeBasenames, extension : {MD}]
    /\ content \in UserContents
    /\ frontmatter = NoFrontmatter
    /\ settings \in CascadeSettings
    /\ queue \in {<<"file-open">>, <<"rename">>, <<"modify">>}
    /\ chains = <<>>
    /\ last = Idle("init")
    /\ userActions = MaxUserActions

CascadeNext ==
    \/ OnFileOpen
    \/ OnRename
    \/ OnModify
    \/ \E i \in 1..Len(chains) : ReadFilenameToHeading(i)
    \/ \E i \in 1..Len(chains) : ReadHeadingToFilename(i)
    \/ \E i \in 1..Len(chains) : ApplyModify(i)
    \/ \E i \in 1..Len(chains) : ApplyRename(i)

CascadeSpec == CascadeInit /\ [][CascadeNext]_vars /\ WF_vars(CascadeNext)

\* ------------------------------------------------- the functions, one call
\* A call of one function on arguments drawn from bounded sets (op = "call"),
\* and its return (op = "return").
HeadingChars == {"a", "x", " ", ".", "#"}

LineValues == {Dashes, <<"#", " ", "a">>, <<"t">>, <<"#", "a">>}

RegExpChars == {"/", "x", "g", "[", "$"}

\* Values of settings.userIllegalSymbols that the settings tab can store, and
\* the default
UserIllegalSymbolsValues ==
    { <<>>, <<"/", "x", "/", "g">>, <<"/", "^", "a", "/", "g">>, <<"/", "$", "^", "/", "g">> }

\* Values of an entry of settings.fileIgnoreRegexen: the default, what "Add
\* Regex" pushes, and what the settings tab can store
IgnoreRegexValues ==
    { DefaultIgnoreRegExp, <<"/", "/", "g">>, <<"/", "(", "?", ":", ")", "/", "g">>,
      <<"/", "a", "/", "g">> }

\* Most expressions in the fileIgnoreRegexen of a call of ignoreFile
MaxRegexen == 2

Excalidraw == <<"n", ".", "e", "x", "c", "a", "l", "i", "d", "r", "a", "w">>

Files ==
    [parent : {Folder}, basename : {<<"a">>, Excalidraw}, extension : {MD, MARKDOWN, TXT}]

NoArgs ==
    [heading |-> <<>>, userIllegalSymbols |-> <<>>, lines |-> <<>>,
     file |-> [parent |-> Root, basename |-> <<>>, extension |-> MD],
     frontmatter |-> NoFrontmatter, regexen |-> <<>>, regExpString |-> <<>>]

Call(fn, args) == [op |-> "call", fn |-> fn, args |-> args]

Calls ==
    {Call("sanitizeHeading", [NoArgs EXCEPT !.heading = h, !.userIllegalSymbols = u]) :
        h \in SeqsUpTo(HeadingChars, MaxLen), u \in UserIllegalSymbolsValues}
    \cup {Call("getHeadingLine", [NoArgs EXCEPT !.lines = l]) :
        l \in SeqsUpTo(LineValues, MaxLines)}
    \cup {Call("ignoreFile", [NoArgs EXCEPT !.file = f, !.frontmatter = fm, !.regexen = r]) :
        f \in Files, fm \in Frontmatters, r \in SeqsUpTo(IgnoreRegexValues, MaxRegexen)}
    \cup {Call("deserializeRegExp", [NoArgs EXCEPT !.regExpString = s]) :
        s \in SeqsUpTo(RegExpChars, MaxRegLen)}

FnInit ==
    /\ file = [parent |-> Folder, basename |-> <<"a">>, extension |-> MD]
    /\ content = << <<"t">> >>
    /\ frontmatter = NoFrontmatter
    /\ settings = DEFAULT_SETTINGS
    /\ queue = <<>>
    /\ chains = <<>>
    /\ userActions = 0
    /\ last \in Calls

Return(fn, ret) ==
    /\ last.op = "call" /\ last.fn = fn
    /\ last' = [op |-> "return", fn |-> fn, args |-> last.args, ret |-> ret]
    /\ UNCHANGED <<file, content, frontmatter, settings, queue, chains, userActions>>

CallSanitizeHeading ==
    Return("sanitizeHeading", sanitizeHeading(last.args.heading, last.args.userIllegalSymbols))

CallGetHeadingLine == Return("getHeadingLine", getHeadingLine(last.args.lines))

CallIgnoreFile ==
    Return("ignoreFile",
           ignoreFile(last.args.file, last.args.frontmatter, last.args.regexen))

CallDeserializeRegExp ==
    Return("deserializeRegExp", deserializeRegExp(last.args.regExpString))

FnNext ==
    \/ CallSanitizeHeading
    \/ CallGetHeadingLine
    \/ CallIgnoreFile
    \/ CallDeserializeRegExp

FnSpec == FnInit /\ [][FnNext]_vars

\* ================================================================ properties
\* Every expression the model compiles is inside the modelled fragment.
FragmentOK ==
    /\ deserializeRegExp(settings.userIllegalSymbols).re.err # Unsupported
    /\ \A i \in 1..Len(settings.fileIgnoreRegexen) :
         deserializeRegExp(settings.fileIgnoreRegexen[i]).re.err # Unsupported
    /\ (last.op = "return" /\ last.fn = "deserializeRegExp") => last.ret.re.err # Unsupported
    /\ last.op \in {"call", "return"} =>
         /\ deserializeRegExp(last.args.userIllegalSymbols).re.err = NoError
         /\ \A i \in 1..Len(last.args.regexen) :
              deserializeRegExp(last.args.regexen[i]).re.err = NoError

Returned1(fn) == last.op = "return" /\ last.fn = fn

\* ------------------------------------------------------------------- C1
\* C1: sanitizeHeading is idempotent: sanitizing what sanitizeHeading returned,
\* under the same userIllegalSymbols setting, returns it unchanged.
C1_Idempotent ==
    Returned1("sanitizeHeading") =>
        sanitizeHeading(last.ret.ret, last.args.userIllegalSymbols).ret = last.ret.ret

\* ------------------------------------------------------------------- C2
\* The heading line of the claim: "# " and sanitizeHeading(b) with its hyphens
\* replaced by spaces and its first character upper-cased
ClaimedHeading(b, u) ==
    HeadingPrefix \o [i \in 1..Len(sanitizeHeading(b, u).ret) |->
        IF i = 1 THEN UpperChar(ReplaceChar(sanitizeHeading(b, u).ret, "-", " ")[i])
        ELSE ReplaceChar(sanitizeHeading(b, u).ret, "-", " ")[i]]

\* The lines of the claim: line getHeadingLine(L) replaced by H, or H put first
ClaimedLines(L, H) ==
    IF getHeadingLine(L) # -1
    THEN [i \in 1..Len(L) |-> IF i = getHeadingLine(L) + 1 THEN H ELSE L[i]]
    ELSE [i \in 1..(Len(L) + 1) |-> IF i = 1 THEN H ELSE L[i - 1]]

\* C2: filename -> heading sync completes for every basename (a handler that
\* is not ignored starts its read with the heading H of the basename, also
\* when the sanitized basename is empty), and its callback writes the lines
\* read with the heading line replaced by H, or H put first when there is none.
C2_FilenameToHeading ==
    /\ (last.op \in {"file-open", "rename"} /\ NotIgnored(last.gate)) =>
          /\ last.threw = NoError
          /\ last.issued = ReadRequest
          /\ last.heading = ClaimedHeading(last.basename, settings.userIllegalSymbols)
    /\ last.op = "f2h-callback" =>
          last.issued = <<Request("modify", ClaimedLines(last.lines, last.heading), <<>>)>>

\* ------------------------------------------------------------------- C3
\* The path of the claim: <parent>/<r>.md, r the lower-cased sanitizeHeading(h)
\* with its spaces replaced by hyphens
ClaimedPath(parent, h, u) ==
    parent \o <<"/">> \o ReplaceChar(toLowerCase(sanitizeHeading(h, u).ret), " ", "-")
        \o <<".", "m", "d">>

\* C3: heading -> filename sync, on lines whose first level-1 heading line is
\* h, requests exactly one rename, to <parent>/<r>.md, and writes no content;
\* without a heading line it requests no rename and runs filename -> heading
\* sync on the current basename instead.
C3_HeadingToFilenameSync ==
    /\ last.op = "h2f-callback" =>
          /\ getHeadingLine(last.lines) # -1
          /\ last.threw = NoError
          /\ last.issued =
                <<Request("rename", <<>>,
                          ClaimedPath(file.parent, last.lines[getHeadingLine(last.lines) + 1],
                                      settings.userIllegalSymbols))>>
          /\ content = last.lines
    /\ last.op = "h2f-fallback" =>
          /\ getHeadingLine(last.lines) = -1
          /\ \A i \in 1..Len(last.issued) : last.issued[i].op # "rename"
          /\ last.threw = FormatHeading(last.basename, settings.userIllegalSymbols).threw
          /\ last.threw = NoError =>
                /\ last.issued = ReadRequest
                /\ \E i \in 1..Len(chains) :
                      /\ chains[i].kind = "f2h" /\ chains[i].stage = "read"
                      /\ chains[i].heading = last.heading

\* A heading line with upper case and a space was found and its rename requested.
C3_Witness ==
    /\ last.op = "h2f-callback"
    /\ last.lines[getHeadingLine(last.lines) + 1] = <<"#", " ", "X", " ", "y">>
    /\ last.issued = <<Request("rename", <<>>, <<"d", "/", "x", "-", "y", ".", "m", "d">>)>>

\* ------------------------------------------------------------------- C4
\* The 0-based indices of lines L that start with "# ", from index start on
HeadingsFrom(L, start) ==
    {i \in 0..(Len(L) - 1) : i >= start /\ StartsWith(L[i + 1], HeadingPrefix)}

\* The 1-based indices after the first of the lines of L that are "---"
Closers(L) == {j \in 2..Len(L) : L[j] = Dashes}

OpensFrontmatter(L) == Len(L) > 0 /\ L[1] = Dashes

\* The result r is the first heading index from start on, or -1 without one
FirstFrom(L, start, r) ==
    IF HeadingsFrom(L, start) = {} THEN r = -1
    ELSE r \in HeadingsFrom(L, start) /\ \A i \in HeadingsFrom(L, start) : r <= i

\* C4: getHeadingLine returns the first index from startLine on of a line that
\* starts with "# ", -1 without one, startLine being 0 when lines[0] is not
\* "---" and otherwise one past the index of the next "---" searched from index
\* 1 (that index is -1, and startLine 0, when there is none); it is never the
\* index of a line inside a leading frontmatter block.
C4_HeadingLine ==
    Returned1("getHeadingLine") =>
        /\ FirstFrom(last.args.lines,
                     IF OpensFrontmatter(last.args.lines) /\ Closers(last.args.lines) # {}
                     THEN Min(Closers(last.args.lines)) ELSE 0,
                     last.ret)
        /\ (OpensFrontmatter(last.args.lines) /\ Closers(last.args.lines) # {}) =>
              ~(last.ret >= 0 /\ last.ret < Min(Closers(last.args.lines)))

\* A heading inside a closed frontmatter block is passed over for the one after it.
C4_Witness ==
    /\ Returned1("getHeadingLine")
    /\ last.args.lines = <<Dashes, <<"#", " ", "a">>, Dashes, <<"#", " ", "a">>>>
    /\ last.ret = 3

\* ------------------------------------------------------------------- C5
NotMarkdown(f) == f.extension \notin {<<"m", "d">>, <<"m", "a", "r", "k", "d", "o", "w", "n">>}

\* The path of f matches at least one of the expressions
MatchesSome(f, regexen) ==
    \E i \in 1..Len(regexen) : Exec(deserializeRegExp(regexen[i]).re, PathOf(f))

\* C5 as stated: ignoreFile returns true exactly when the extension is not
\* markdown, or the frontmatter contains a marker key, or the path matches an
\* ignore expression.
C5_Original ==
    Returned1("ignoreFile") =>
        /\ ~last.ret.threw
        /\ last.ret.ret <=>
              \/ NotMarkdown(last.args.file)
              \/ /\ last.args.frontmatter.present
                 /\ \/ last.args.frontmatter.excalidraw # "absent"
                    \/ last.args.frontmatter.kanban # "absent"
              \/ MatchesSome(last.args.file, last.args.regexen)

\* C5 (amended): ignoreFile returns true exactly when the extension is not
\* markdown, or the frontmatter holds a truthy value under a marker key, or the
\* path matches an ignore expression.
C5_IgnoreFile ==
    Returned1("ignoreFile") =>
        /\ ~last.ret.threw
        /\ last.ret.ret <=>
              \/ NotMarkdown(last.args.file)
              \/ /\ last.args.frontmatter.present
                 /\ \/ last.args.frontmatter.excalidraw = "truthy"
                    \/ last.args.frontmatter.kanban = "truthy"
              \/ MatchesSome(last.args.file, last.args.regexen)

\* A markdown document with a falsy marker is ignored only for its path:
\* n.excalidraw.md under the default expression.
C5_Witness ==
    /\ Returned1("ignoreFile")
    /\ last.args.file = [parent |-> Folder, basename |-> Excalidraw, extension |-> MD]
    /\ last.args.frontmatter = [present |-> TRUE, excalidraw |-> "falsy", kanban |-> "absent"]
    /\ last.args.regexen = <<DefaultIgnoreRegExp>>
    /\ last.ret.ret

\* ------------------------------------------------------------------- C6
\* The string is malformed for one of the three reasons the claim names: no
\* delimiters, an uncompilable pattern, invalid flags
Malformed(s) ==
    \/ Cardinality({i \in 1..Len(s) : s[i] = "/"}) < 2
    \/ NewRegExp(RegExpMatch(s).pattern, RegExpMatch(s).flags).err = SyntaxError

\* Subjects of a following replace or match test
Subjects == SeqsUpTo({"x", "g", "/"}, 2) \ {<<>>}

\* C6: on every malformed string deserializeRegExp does not throw, shows
\* exactly one notice and returns a global expression that matches no
\* (non-empty) subject, so that a replace leaves the subject unchanged.
C6_AbsorbsMalformed ==
    (Returned1("deserializeRegExp") /\ Malformed(last.args.regExpString)) =>
        /\ ~last.ret.threw
        /\ last.ret.notices = 1
        /\ last.ret.re.global
        /\ \A s \in Subjects : ~Exec(last.ret.re, s) /\ Replace(s, last.ret.re) = s

\* ------------------------------------------------------------------- C7
\* None of \ / : | # ^ [ ] and no dot at the end
Legal(s) ==
    /\ \A i \in 1..Len(s) : s[i] \notin {"\\", "/", ":", "|", "#", "^", "[", "]"}
    /\ s = <<>> \/ s[Len(s)] # "."

\* C7: every heading text that filename -> heading sync writes (after "# ")
\* and every basename that heading -> filename sync requests is legal.
C7_NoIllegalCharacter ==
    /\ last.op = "f2h-callback" =>
          Legal(SubSeq(last.heading, Len(HeadingPrefix) + 1, Len(last.heading)))
    /\ last.op = "h2f-callback" =>
          \A i \in 1..Len(last.issued) : Legal(ParsePath(last.issued[i].newPath).basename)

\* ------------------------------------------------------------------- C8
\* The document carries a marker of an incompatible plugin (a truthy value
\* under its key) or its path matches an ignore expression
Ignorable ==
    \/ frontmatter.present
          /\ (frontmatter.excalidraw = "truthy" \/ frontmatter.kanban = "truthy")
    \/ MatchesSome(file, settings.fileIgnoreRegexen)

\* C8: a document that carries a marker or matches an ignore expression is
\* never mutated by sync: no vault.modify and no renameFile that a chain
\* requested is carried out on it.
C8_NeverMutated ==
    [][(last'.op \in {"vault.modify", "renameFile"} /\ Len(chains') < Len(chains))
          => ~Ignorable]_vars

\* ------------------------------------------------------------------- C9
\* C9: sync operations on the document never overlap: at most one read ->
\* write/rename chain is pending at a time.
C9_NoOverlap == Len(chains) <= 1

\* ------------------------------------------------------------------ C10
Quiescent == queue = <<>> /\ chains = <<>>

\* The basename is the slug of the first heading: lower case, sanitized, spaces
\* as hyphens
BasenameIsSlug ==
    /\ getHeadingLine(content) # -1
    /\ file.basename =
          ReplaceChar(toLowerCase(sanitizeHeading(content[getHeadingLine(content) + 1],
                                                  settings.userIllegalSymbols).ret), " ", "-")

\* C10: the cascade of one user event converges: eventually the system is and
\* stays quiescent, with the basename the slug of the first heading.
C10_Converges == <>[](Quiescent /\ BasenameIsSlug)

====
